---- MODULE Spec2Model ----
(***************************************************************************)
(* cntr: a filter that reads a text (file or standard input), parses it    *)
(* into paragraphs and lines, and prints every line centred against the    *)
(* terminal width.  The module models src/cntr.c.                          *)
(*                                                                         *)
(* Byte strings are sequences of byte values without the terminating NUL;  *)
(* a position p of a string s is 1-based and p = Len(s) + 1 is the         *)
(* position of the terminating NUL.                                        *)
(***************************************************************************)
EXTENDS Integers, Sequences, FiniteSets, TLC

\* ------------------------------------------------------------------ bounds

\* Longest input text drawn from the alphabet {'a', '\n'}.
MaxLen == 5
\* Longest byte string handed to getDisplayWidth in SpecWidth.
MaxWLen == 3
\* Largest column count the window-size query reports in the model.
MaxCols == 4
\* Width in bits of size_t in the model of readStdinToString.
SizeBits == 12

\* ----------------------------------------------------------------- state

\* The program.
VARIABLES
    pc,             \* position of main: "main", "parse", "para", "lines", "parsed",
                    \* "print", "exit"
    argc,           \* argument count of the invocation
    content,        \* the bytes of the named file or of standard input
    inputContent,   \* main's buffer: NULL or [id, s]
    doc,            \* the Document of parseDocument and main
    para,           \* the Paragraph parseDocument is filling
    textPtr, paraEnd, nextParaStart, lineStart,     \* parseDocument's pointers
    terminalWidth, i, j,                            \* printCenteredDocument's locals
    out,            \* bytes written to standard output
    err,            \* diagnostics written to standard error
    heap,           \* the allocator's state
    status          \* the exit status, -1 while running

progVars == << pc, argc, content, inputContent, doc, para, textPtr, paraEnd,
               nextParaStart, lineStart, terminalWidth, i, j, out, err, heap, status >>

\* getDisplayWidth on its own.
VARIABLES
    wpc,            \* "input" before the measurement, "measured" after it
    wa, wb,         \* two byte strings
    widthA, widthB, widthAB     \* getDisplayWidth of wa, wb and wa followed by wb

widthVars == << wpc, wa, wb, widthA, widthB, widthAB >>

\* readStdinToString on its own.
VARIABLES
    rpc,            \* "start", "loop", "check", "returned"
    capacity, size, \* the function's size_t locals
    buffer,         \* the bytes written into the buffer, from its start
    overrun,        \* a byte was written outside the allocation
    delivered,      \* number of bytes fread has handed over so far
    eof, ferr,      \* the stream's end-of-file and error indicators
    result          \* "" while running, "ok" (the buffer) or "NULL"

stdinVars == << rpc, capacity, size, buffer, overrun, delivered, eof, ferr, result >>

\* ------------------------------------------------------- program constants

NUL == 0
NL == 10
SPACE == 32
DefaultWidth == 80
ParagraphCapacity == 8
DocumentCapacity == 8
StdinCapacity == 1024

\* A null pointer: no block has identifier 0.
NULL == [id |-> 0]

IsNull(ptr) == ptr.id = 0

\* ----------------------------------------------------------- byte strings

RECURSIVE Rep(_, _)
Rep(s, n) == IF n = 0 THEN << >> ELSE s \o Rep(s, n - 1)

RECURSIVE StringsUpTo(_, _)
StringsUpTo(alphabet, n) ==
    IF n = 0 THEN { << >> }
    ELSE LET shorter == StringsUpTo(alphabet, n - 1)
         IN  shorter \cup { Append(s, c) : s \in shorter, c \in alphabet }

\* *p for a pointer p into the NUL-terminated string s.
CharAt(s, p) == IF p <= Len(s) THEN s[p] ELSE NUL

\* --------------------------------------------------------- width oracle

\* wcwidth(3) on the code points the model's bytes can encode: -1 for control
\* characters, 0 for NUL and combining marks, 2 for wide East Asian characters.
wcwidth(wc) ==
    IF wc = 0 THEN 0
    ELSE IF wc < 32 \/ (wc >= 127 /\ wc < 160) THEN -1
    ELSE IF wc >= 768 /\ wc <= 879 THEN 0
    ELSE IF (wc >= 4352 /\ wc <= 4447) \/ (wc >= 11904 /\ wc <= 42191)
            \/ (wc >= 44032 /\ wc <= 55203) \/ (wc >= 63744 /\ wc <= 64255)
            \/ (wc >= 65280 /\ wc <= 65376) THEN 2
    ELSE 1

IsCont(b) == b >= 128 /\ b < 192

\* Length of the UTF-8 sequence a lead byte announces, 0 for a byte that cannot
\* start a sequence (a continuation byte, 0xC0, 0xC1, 0xF8 and above).
SeqLen(b) ==
    IF b < 128 THEN 1
    ELSE IF b >= 194 /\ b < 224 THEN 2
    ELSE IF b >= 224 /\ b < 240 THEN 3
    ELSE IF b >= 240 /\ b < 248 THEN 4
    ELSE 0

LeadBits(b, n) ==
    IF n = 1 THEN b ELSE IF n = 2 THEN b - 192 ELSE IF n = 3 THEN b - 224 ELSE b - 240

RECURSIVE CodePoint(_, _, _, _)
CodePoint(s, p, k, acc) ==
    IF k = 0 THEN acc ELSE CodePoint(s, p + 1, k - 1, acc * 64 + (s[p] - 128))

MinCodePoint(n) == IF n = 1 THEN 0 ELSE IF n = 2 THEN 128 ELSE IF n = 3 THEN 2048 ELSE 65536

\* mbrtowc(&wc, s + p - 1, len, &state) with a zeroed state in a UTF-8 locale:
\* [consumed |-> n, wc |-> code point], consumed -1 for an invalid sequence,
\* -2 for a valid but incomplete one, 0 for the NUL character.
mbrtowc(s, p, len) ==
    LET b == s[p]
        n == SeqLen(b)
        avail == IF len < n THEN len ELSE n
        contsOk == \A q \in (p + 1)..(p + avail - 1) : IsCont(s[q])
    IN  IF b = NUL THEN [consumed |-> 0, wc |-> 0]
        ELSE IF n = 0 \/ ~contsOk THEN [consumed |-> -1, wc |-> 0]
        ELSE IF len < n THEN [consumed |-> -2, wc |-> 0]
        ELSE LET cp == CodePoint(s, p + 1, n - 1, LeadBits(b, n))
             IN  IF cp < MinCodePoint(n) THEN [consumed |-> -1, wc |-> 0]
                 ELSE [consumed |-> n, wc |-> cp]

\* A variant of the loop that steps over the whole announced length of a
\* malformed sequence instead of over one byte.
RECURSIVE WidthLoop_SkipSequence(_, _, _, _)
WidthLoop_SkipSequence(s, p, len, width) ==
    IF len <= 0 THEN width
    ELSE LET r == mbrtowc(s, p, len)
             n == IF SeqLen(s[p]) < 1 THEN 1 ELSE SeqLen(s[p])
             skip == IF n > len THEN len ELSE n
         IN  IF r.consumed = -1 \/ r.consumed = -2
                 THEN WidthLoop_SkipSequence(s, p + skip, len - skip, width + 1)
             ELSE IF r.consumed = 0 THEN width
             ELSE LET w == wcwidth(r.wc)
                      char_width == IF w < 0 THEN 1 ELSE w
                  IN  WidthLoop_SkipSequence(s, p + r.consumed, len - r.consumed,
                                             width + char_width)

\* The loop of getDisplayWidth from pointer p with len bytes left.
RECURSIVE WidthLoop(_, _, _, _)
WidthLoop(s, p, len, width) ==
    IF len <= 0 THEN width
    ELSE LET r == mbrtowc(s, p, len)
         IN  IF r.consumed = -1 \/ r.consumed = -2
                 THEN WidthLoop(s, p + 1, len - 1, width + 1)
             ELSE IF r.consumed = 0 THEN width
             ELSE LET w == wcwidth(r.wc)
                      char_width == IF w < 0 THEN 1 ELSE w
                  IN  WidthLoop(s, p + r.consumed, len - r.consumed, width + char_width)

getDisplayWidth(str) == WidthLoop(str, 1, Len(str), 0)

\* ------------------------------------------------------------------ heap

\* The heap: the live blocks, the next block identifier, and whether a block
\* that is not live was handed to free.
EmptyHeap == [live |-> {}, next |-> 1, bad |-> FALSE]

\* malloc/strdup that succeeds: the new block is h.next.
Malloc(h) == [h EXCEPT !.live = @ \cup {h.next}, !.next = @ + 1]

Free(h, id) ==
    IF id \in h.live THEN [h EXCEPT !.live = @ \ {id}] ELSE [h EXCEPT !.bad = TRUE]

\* ------------------------------------------------------------- Paragraph

createParagraph(h, okPara, okLines) ==
    IF ~okPara
        THEN [para |-> NULL, heap |-> h,
              err |-> << "Memory allocation error for Paragraph" >>]
    ELSE LET h1 == Malloc(h)
         IN  IF ~okLines
                 THEN [para |-> NULL, heap |-> Free(h1, h.next),
                       err |-> << "Memory allocation error for Paragraph lines" >>]
             ELSE [para |-> [id |-> h.next, arr |-> h1.next, lines |-> << >>,
                             capacity |-> ParagraphCapacity],
                   heap |-> Malloc(h1), err |-> << >>]

\* para->lineCount
lineCount(pg) == Len(pg.lines)

addLineToParagraph(h, pg, line, okGrow, okDup) ==
    IF IsNull(pg) THEN [para |-> pg, heap |-> h, err |-> << >>]
    ELSE LET full == lineCount(pg) >= pg.capacity
         IN  IF full /\ ~okGrow
                 THEN [para |-> pg, heap |-> h,
                       err |-> << "Reallocation error for Paragraph lines" >>]
             ELSE LET h1 == IF full THEN Malloc(Free(h, pg.arr)) ELSE h
                      p1 == IF full
                                THEN [pg EXCEPT !.arr = h.next, !.capacity = @ * 2]
                                ELSE pg
                  IN  IF ~okDup
                          THEN [para |-> p1, heap |-> h1,
                                err |-> << "strdup error for Paragraph line" >>]
                      ELSE [para |-> [p1 EXCEPT !.lines =
                                          Append(@, [id |-> h1.next, s |-> line])],
                            heap |-> Malloc(h1), err |-> << >>]

RECURSIVE FreeLines(_, _, _)
FreeLines(h, lines, k) ==
    IF k > Len(lines) THEN h ELSE FreeLines(Free(h, lines[k].id), lines, k + 1)

freeParagraph(h, pg) ==
    IF IsNull(pg) THEN h
    ELSE Free(Free(FreeLines(h, pg.lines, 1), pg.arr), pg.id)

\* -------------------------------------------------------------- Document

createDocument(h, okDoc, okParas) ==
    IF ~okDoc
        THEN [doc |-> NULL, heap |-> h,
              err |-> << "Memory allocation error for Document" >>]
    ELSE LET h1 == Malloc(h)
         IN  IF ~okParas
                 THEN [doc |-> NULL, heap |-> Free(h1, h.next),
                       err |-> << "Memory allocation error for Document paragraphs" >>]
             ELSE [doc |-> [id |-> h.next, arr |-> h1.next, paragraphs |-> << >>,
                            capacity |-> DocumentCapacity],
                   heap |-> Malloc(h1), err |-> << >>]

\* doc->paragraphCount
paragraphCount(d) == Len(d.paragraphs)

addParagraphToDocument(h, d, pg, okGrow) ==
    IF IsNull(d) \/ IsNull(pg) THEN [doc |-> d, heap |-> h, err |-> << >>]
    ELSE LET full == paragraphCount(d) >= d.capacity
         IN  IF full /\ ~okGrow
                 THEN [doc |-> d, heap |-> h,
                       err |-> << "Reallocation error for Document paragraphs" >>]
             ELSE LET h1 == IF full THEN Malloc(Free(h, d.arr)) ELSE h
                      d1 == IF full
                                THEN [d EXCEPT !.arr = h.next, !.capacity = @ * 2]
                                ELSE d
                  IN  [doc |-> [d1 EXCEPT !.paragraphs = Append(@, pg)],
                       heap |-> h1, err |-> << >>]

RECURSIVE FreeParagraphs(_, _, _)
FreeParagraphs(h, paras, k) ==
    IF k > Len(paras) THEN h
    ELSE FreeParagraphs(freeParagraph(h, paras[k]), paras, k + 1)

freeDocument(h, d) ==
    IF IsNull(d) THEN h
    ELSE Free(Free(FreeParagraphs(h, d.paragraphs, 1), d.arr), d.id)

\* ---------------------------------------------------------------- parser

\* A variant that skips one newline only.
SkipNewlines_One(s, p) == IF CharAt(s, p) = NL THEN p + 1 ELSE p

\* while (*textPtr == '\n') textPtr++;
RECURSIVE SkipNewlines(_, _)
SkipNewlines(s, p) == IF CharAt(s, p) = NL THEN SkipNewlines(s, p + 1) ELSE p

\* strstr(s + p - 1, "\n\n"): the position of the first pair of newlines at or
\* after p, 0 (no position) when there is none.
strstrNLNL(s, p) ==
    LET hits == { q \in p..(Len(s) - 1) : s[q] = NL /\ s[q + 1] = NL }
    IN  IF hits = {} THEN 0 ELSE CHOOSE q \in hits : \A r \in hits : q <= r

\* while (lineEnd < paraEnd && *lineEnd != '\n') lineEnd++;
RECURSIVE ScanLine(_, _, _)
ScanLine(s, p, end) ==
    IF p < end /\ CharAt(s, p) # NL THEN ScanLine(s, p + 1, end) ELSE p

\* ---------------------------------------------------------------- render

getTerminalWidth(ioctlRet, ws_col) == IF ioctlRet = -1 THEN DefaultWidth ELSE ws_col

\* C integer division, truncating toward zero.
CDiv(a, b) == IF a >= 0 THEN a \div b ELSE -((-a) \div b)

\* A variant that rounds the half up.
padding_RoundUp(terminalW, displayWidth) ==
    LET q == CDiv(terminalW - displayWidth + 1, 2) IN IF q < 0 THEN 0 ELSE q

padding(terminalW, displayWidth) ==
    LET q == CDiv(terminalW - displayWidth, 2) IN IF q < 0 THEN 0 ELSE q

\* A variant that writes the blank line after the last paragraph too.
Separator_Always(index, count) == IF index < count THEN << NL >> ELSE << >>

\* The blank line after the paragraph at index of count paragraphs.
Separator(index, count) == IF index < count - 1 THEN << NL >> ELSE << >>

\* for (k = 0; k < padding; k++) putchar(' ');  printf("%s\n", line);
PrintedLine(terminalW, line) ==
    Rep(<< SPACE >>, padding(terminalW, getDisplayWidth(line))) \o line \o << NL >>

\* ----------------------------------------------------------- the program


\* The texts the program is run on: every string over {'a', '\n'} up to MaxLen,
\* texts that fill a Paragraph's and a Document's initial arrays, and lines of
\* wide, zero-width, control and malformed bytes.
Inputs ==
    StringsUpTo({97, NL}, MaxLen)
    \cup { Rep(<< 97, NL >>, ParagraphCapacity + 1),
           Rep(<< 97, NL, NL >>, DocumentCapacity + 1),
           << 230, 129, 129, NL, 204, 129, NL, 97, 97, 97, 97, 97 >>,
           << 7, 129, NL, 97, NL, NL, NL, 230, 97 >> }

ProgInit ==
    /\ pc = "main"
    /\ argc \in 1..3
    /\ content \in Inputs
    /\ inputContent = NULL
    /\ doc = NULL
    /\ para = NULL
    /\ textPtr = 0 /\ paraEnd = 0 /\ nextParaStart = 0 /\ lineStart = 0
    /\ terminalWidth = -1 /\ i = 0 /\ j = 0
    /\ out = << >>
    /\ err = << >>
    /\ heap = EmptyHeap
    /\ status = -1

parseVars == << textPtr, paraEnd, nextParaStart, lineStart >>
printVars == << terminalWidth, i, j >>

\* main with a wrong argument count: usage message, status 1.
MainUsage ==
    /\ UNCHANGED << widthVars, stdinVars >>
    /\ pc = "main"
    /\ argc # 1 /\ argc # 2
    /\ err' = err \o << "Usage", "  Reads from <filename> or from standard input" >>
    /\ status' = 1
    /\ pc' = "exit"
    /\ UNCHANGED << argc, content, inputContent, doc, para, parseVars, printVars, out, heap >>

\* The outcomes of readFileToString: the message it prints and whether it
\* returns the buffer.
readFileToString(h, text, outcome) ==
    IF outcome = "ok" THEN [buf |-> [id |-> h.next, s |-> text], heap |-> Malloc(h), err |-> << >>]
    ELSE IF outcome = "read" THEN [buf |-> NULL, heap |-> Free(Malloc(h), h.next),
                                   err |-> << "Error reading file" >>]
    ELSE [buf |-> NULL, heap |-> h,
          err |-> << IF outcome = "open" THEN "Error opening file"
                     ELSE IF outcome = "size" THEN "Error determining file size"
                     ELSE "Memory allocation error for file content buffer" >>]

\* The outcomes of readStdinToString as main sees them (its loop is StdinSpec's).
readStdinToString(h, text, outcome) ==
    IF outcome = "ok" THEN [buf |-> [id |-> h.next, s |-> text], heap |-> Malloc(h), err |-> << >>]
    ELSE IF outcome = "alloc" THEN [buf |-> NULL, heap |-> h,
                                    err |-> << "Memory allocation error for stdin buffer" >>]
    ELSE [buf |-> NULL, heap |-> Free(Malloc(h), h.next),
          err |-> << IF outcome = "overflow" THEN "Error: Buffer capacity overflow for stdin."
                     ELSE IF outcome = "realloc" THEN "Memory reallocation error for stdin buffer"
                     ELSE "Error reading from stdin" >>]

\* main after the loader returned r: status 1 when it returned NULL.
MainLoaded(r) ==
    /\ inputContent' = r.buf
    /\ heap' = r.heap
    /\ err' = err \o r.err
    /\ IF IsNull(r.buf)
           THEN pc' = "exit" /\ status' = 1
           ELSE pc' = "parse" /\ UNCHANGED status
    /\ UNCHANGED << argc, content, doc, para, parseVars, printVars, out >>

MainReadFile ==
    /\ UNCHANGED << widthVars, stdinVars >>
    /\ pc = "main"
    /\ argc = 2
    /\ \E outcome \in {"ok", "open", "size", "alloc", "read"} :
           MainLoaded(readFileToString(heap, content, outcome))

MainReadStdin ==
    /\ UNCHANGED << widthVars, stdinVars >>
    /\ pc = "main"
    /\ argc = 1
    /\ \E outcome \in {"ok", "alloc", "overflow", "realloc", "read"} :
           MainLoaded(readStdinToString(heap, content, outcome))

\* parseDocument up to its main loop: createDocument.
ParseCreateDocument ==
    /\ UNCHANGED << widthVars, stdinVars >>
    /\ pc = "parse"
    /\ \E okDoc, okParas \in BOOLEAN :
           LET r == createDocument(heap, okDoc, okParas)
           IN  /\ doc' = r.doc
               /\ heap' = r.heap
               /\ err' = err \o r.err
               /\ pc' = IF IsNull(r.doc) THEN "parsed" ELSE "para"
               /\ textPtr' = IF IsNull(r.doc) THEN textPtr ELSE 1
    /\ UNCHANGED << argc, content, inputContent, para, paraEnd, nextParaStart,
                    lineStart, printVars, out, status >>

\* The head of the main loop when only newlines are left: return doc.
ParseEnd ==
    /\ UNCHANGED << widthVars, stdinVars >>
    /\ pc = "para"
    /\ CharAt(inputContent.s, SkipNewlines(inputContent.s, textPtr)) = NUL
    /\ textPtr' = SkipNewlines(inputContent.s, textPtr)
    /\ pc' = "parsed"
    /\ UNCHANGED << argc, content, inputContent, doc, para, paraEnd, nextParaStart,
                    lineStart, printVars, out, err, heap, status >>

\* The head of the main loop at a paragraph: find its end, create the Paragraph.
ParseParagraph ==
    /\ UNCHANGED << widthVars, stdinVars >>
    /\ pc = "para"
    /\ LET text == inputContent.s
           paraStart == SkipNewlines(text, textPtr)
           found == strstrNLNL(text, paraStart)
       IN  /\ CharAt(text, paraStart) # NUL
           /\ textPtr' = paraStart
           /\ paraEnd' = IF found = 0 THEN Len(text) + 1 ELSE found
           /\ nextParaStart' = IF found = 0 THEN Len(text) + 1 ELSE found + 2
           /\ lineStart' = paraStart
           /\ \E okPara, okLines \in BOOLEAN :
                  LET r == createParagraph(heap, okPara, okLines)
                  IN  /\ err' = err \o r.err
                      /\ para' = r.para
                      /\ IF IsNull(r.para)
                             THEN /\ heap' = freeDocument(r.heap, doc)
                                  /\ doc' = NULL
                                  /\ pc' = "parsed"
                             ELSE /\ heap' = r.heap
                                  /\ doc' = doc
                                  /\ pc' = "lines"
    /\ UNCHANGED << argc, content, inputContent, printVars, out, status >>

\* One iteration of the line loop: copy the line, add it, free the copy, advance.
ParseLine ==
    /\ UNCHANGED << widthVars, stdinVars >>
    /\ pc = "lines"
    /\ lineStart < paraEnd /\ CharAt(inputContent.s, lineStart) # NUL
    /\ LET text == inputContent.s
           lineEnd == ScanLine(text, lineStart, paraEnd)
           line == SubSeq(text, lineStart, lineEnd - 1)
       IN  \E okLine, okGrow, okDup \in BOOLEAN :
               IF ~okLine
                   THEN /\ err' = err \o << "Memory allocation failed for line in parseDocument" >>
                        /\ heap' = freeDocument(freeParagraph(heap, para), doc)
                        /\ doc' = NULL
                        /\ para' = NULL
                        /\ pc' = "parsed"
                        /\ UNCHANGED lineStart
                   ELSE LET h1 == Malloc(heap)
                            r == addLineToParagraph(h1, para, line, okGrow, okDup)
                        IN  /\ err' = err \o r.err
                            /\ para' = r.para
                            /\ heap' = Free(r.heap, heap.next)
                            /\ lineStart' = IF lineEnd < paraEnd /\ CharAt(text, lineEnd) = NL
                                                THEN lineEnd + 1 ELSE lineEnd
                            /\ UNCHANGED << doc, pc >>
    /\ UNCHANGED << argc, content, inputContent, textPtr, paraEnd, nextParaStart,
                    printVars, out, status >>

\* After the line loop: add the Paragraph to the Document, go to the next one.
ParseAppendParagraph ==
    /\ UNCHANGED << widthVars, stdinVars >>
    /\ pc = "lines"
    /\ ~(lineStart < paraEnd /\ CharAt(inputContent.s, lineStart) # NUL)
    /\ \E okGrow \in BOOLEAN :
           LET r == addParagraphToDocument(heap, doc, para, okGrow)
           IN  /\ doc' = r.doc
               /\ heap' = r.heap
               /\ err' = err \o r.err
    /\ textPtr' = nextParaStart
    /\ pc' = "para"
    /\ UNCHANGED << argc, content, inputContent, para, paraEnd, nextParaStart,
                    lineStart, printVars, out, status >>

\* main when parseDocument returned NULL.
MainParseFailed ==
    /\ UNCHANGED << widthVars, stdinVars >>
    /\ pc = "parsed"
    /\ IsNull(doc)
    /\ err' = err \o << "Error parsing document." >>
    /\ heap' = Free(heap, inputContent.id)
    /\ status' = 1
    /\ pc' = "exit"
    /\ UNCHANGED << argc, content, inputContent, doc, para, parseVars, printVars, out >>

\* printCenteredDocument up to its loops: the terminal is probed once.
PrintStart ==
    /\ UNCHANGED << widthVars, stdinVars >>
    /\ pc = "parsed"
    /\ ~IsNull(doc)
    /\ \E ioctlRet \in {-1, 0}, ws_col \in 0..MaxCols :
           terminalWidth' = getTerminalWidth(ioctlRet, ws_col)
    /\ i' = 0 /\ j' = 0
    /\ pc' = "print"
    /\ UNCHANGED << argc, content, inputContent, doc, para, parseVars, out, err, heap, status >>

\* One iteration of the inner loop: padding, the line, a newline.
PrintLine ==
    /\ UNCHANGED << widthVars, stdinVars >>
    /\ pc = "print"
    /\ i < paragraphCount(doc)
    /\ j < lineCount(doc.paragraphs[i + 1])
    /\ out' = out \o PrintedLine(terminalWidth, doc.paragraphs[i + 1].lines[j + 1].s)
    /\ j' = j + 1
    /\ UNCHANGED << pc, argc, content, inputContent, doc, para, parseVars, terminalWidth,
                    i, err, heap, status >>

\* After the inner loop: the blank line between paragraphs.
PrintEndParagraph ==
    /\ UNCHANGED << widthVars, stdinVars >>
    /\ pc = "print"
    /\ i < paragraphCount(doc)
    /\ j >= lineCount(doc.paragraphs[i + 1])
    /\ out' = out \o Separator(i, paragraphCount(doc))
    /\ i' = i + 1
    /\ j' = 0
    /\ UNCHANGED << pc, argc, content, inputContent, doc, para, parseVars, terminalWidth,
                    err, heap, status >>

\* main after printCenteredDocument returned: cleanup, status 0.
MainCleanup ==
    /\ UNCHANGED << widthVars, stdinVars >>
    /\ pc = "print"
    /\ i >= paragraphCount(doc)
    /\ heap' = Free(freeDocument(heap, doc), inputContent.id)
    /\ status' = 0
    /\ pc' = "exit"
    /\ UNCHANGED << argc, content, inputContent, doc, para, parseVars, printVars, out, err >>

ProgNext ==
    \/ MainUsage
    \/ MainReadFile
    \/ MainReadStdin
    \/ ParseCreateDocument
    \/ ParseEnd
    \/ ParseParagraph
    \/ ParseLine
    \/ ParseAppendParagraph
    \/ MainParseFailed
    \/ PrintStart
    \/ PrintLine
    \/ PrintEndParagraph
    \/ MainCleanup

\* ------------------------------------------------- getDisplayWidth alone


\* 'a', BEL, the lead byte 0xCC (two-byte sequence), the continuation byte 0x81,
\* the lead byte 0xE6 (three-byte sequence).
WidthBytes == {97, 7, 204, 129, 230}

WidthIdle ==
    /\ wpc = "idle" /\ wa = << >> /\ wb = << >>
    /\ widthA = 0 /\ widthB = 0 /\ widthAB = 0

WidthInit ==
    /\ wpc = "input"
    /\ wa \in StringsUpTo(WidthBytes, MaxWLen)
    /\ wb \in StringsUpTo(WidthBytes, MaxWLen - 1)
    /\ widthA = 0 /\ widthB = 0 /\ widthAB = 0

Measure ==
    /\ UNCHANGED << progVars, stdinVars >>
    /\ wpc = "input"
    /\ widthA' = getDisplayWidth(wa)
    /\ widthB' = getDisplayWidth(wb)
    /\ widthAB' = getDisplayWidth(wa \o wb)
    /\ wpc' = "measured"
    /\ UNCHANGED << wa, wb >>

\* ----------------------------------------------------- readStdinToString


RECURSIVE Pow2(_)
Pow2(n) == IF n = 0 THEN 1 ELSE 2 * Pow2(n - 1)

\* size_t arithmetic.
Wrap(x) == x % Pow2(SizeBits)

\* The byte at offset k of the stream (never NUL).
StreamByte(k) == 1 + (k % 251)

StreamBytes(from, n) == [k \in 1..n |-> StreamByte(from + k - 1)]

\* capacity - size - 1, the count handed to fread.
ReadRequest(cap, sz) == Wrap(cap - sz - 1)

\* A variant that takes the buffer for full one byte later.
BufferFull_OffByOne(sz, cap) == sz >= cap

\* size >= capacity - 1
BufferFull(sz, cap) == sz >= Wrap(cap - 1)

\* What a read of request bytes can return when it returns data: all of it, one
\* byte less, half of it, or a single byte.
ReadAmounts(request) == { n \in {request, request - 1, request \div 2, 1} : n >= 1 /\ n <= request }

StdinIdle ==
    /\ rpc = "idle" /\ capacity = 0 /\ size = 0 /\ buffer = << >>
    /\ overrun = FALSE /\ delivered = 0 /\ eof = FALSE /\ ferr = FALSE /\ result = ""

StdinInit ==
    /\ rpc = "start" /\ capacity = 0 /\ size = 0 /\ buffer = << >>
    /\ overrun = FALSE /\ delivered = 0 /\ eof = FALSE /\ ferr = FALSE /\ result = ""

\* malloc(capacity) of the initial buffer.
StdinMalloc ==
    /\ UNCHANGED << progVars, widthVars >>
    /\ rpc = "start"
    /\ capacity' = StdinCapacity
    /\ size' = 0
    /\ \E ok \in BOOLEAN :
           IF ok THEN rpc' = "loop" /\ UNCHANGED result
                 ELSE rpc' = "returned" /\ result' = "NULL"
    /\ UNCHANGED << buffer, overrun, delivered, eof, ferr >>

\* fread returns 0: the loop ends.  With a request of 0 bytes nothing is read and
\* no indicator is set; otherwise the stream is at its end or in error.
StdinReadEnd ==
    /\ UNCHANGED << progVars, widthVars >>
    /\ rpc = "loop"
    /\ IF ReadRequest(capacity, size) = 0
           THEN UNCHANGED << eof, ferr >>
           ELSE \E failed \in BOOLEAN : eof' = ~failed /\ ferr' = failed
    /\ rpc' = "check"
    /\ UNCHANGED << capacity, size, buffer, overrun, delivered, result >>

\* fread returns n > 0 bytes, written at buffer + size; a full buffer is doubled.
StdinRead ==
    /\ UNCHANGED << progVars, widthVars >>
    /\ rpc = "loop"
    /\ \E n \in ReadAmounts(ReadRequest(capacity, size)) :
           LET newSize == Wrap(size + n)
               newCapacity == Wrap(capacity * 2)
           IN  /\ buffer' = buffer \o StreamBytes(delivered, n)
               /\ overrun' = (overrun \/ size + n > capacity)
               /\ delivered' = delivered + n
               /\ size' = newSize
               /\ ~(BufferFull(newSize, capacity) /\ newCapacity < capacity)
               /\ IF BufferFull(newSize, capacity)
                      THEN \E ok \in BOOLEAN :
                               IF ok THEN capacity' = newCapacity /\ UNCHANGED << rpc, result >>
                                     ELSE /\ rpc' = "returned" /\ result' = "NULL"
                                          /\ UNCHANGED capacity
                      ELSE UNCHANGED << capacity, rpc, result >>
    /\ UNCHANGED << eof, ferr >>

\* fread fills the buffer and doubling the capacity wraps: free, return NULL.
StdinReadOverflow ==
    /\ UNCHANGED << progVars, widthVars >>
    /\ rpc = "loop"
    /\ \E n \in ReadAmounts(ReadRequest(capacity, size)) :
           /\ BufferFull(Wrap(size + n), capacity)
           /\ Wrap(capacity * 2) < capacity
           /\ buffer' = buffer \o StreamBytes(delivered, n)
           /\ overrun' = (overrun \/ size + n > capacity)
           /\ delivered' = delivered + n
           /\ size' = Wrap(size + n)
    /\ rpc' = "returned"
    /\ result' = "NULL"
    /\ UNCHANGED << capacity, eof, ferr >>

\* After the loop: NULL on a read error, else the NUL at buffer[size], which ends
\* the string the caller gets.
StdinFinish ==
    /\ UNCHANGED << progVars, widthVars >>
    /\ rpc = "check"
    /\ IF ferr
           THEN result' = "NULL" /\ UNCHANGED << buffer, overrun >>
           ELSE /\ result' = "ok"
                /\ buffer' = SubSeq(buffer, 1, size) \o << NUL >>
                /\ overrun' = (overrun \/ size >= capacity)
    /\ rpc' = "returned"
    /\ UNCHANGED << capacity, size, delivered, eof, ferr >>

StdinNext ==
    \/ StdinMalloc
    \/ StdinReadEnd
    \/ StdinRead
    \/ StdinReadOverflow
    \/ StdinFinish

\* -------------------------------------------------------- specifications

vars == << progVars, widthVars, stdinVars >>

ProgIdle ==
    /\ pc = "idle" /\ argc = 0 /\ content = << >> /\ inputContent = NULL
    /\ doc = NULL /\ para = NULL
    /\ textPtr = 0 /\ paraEnd = 0 /\ nextParaStart = 0 /\ lineStart = 0
    /\ terminalWidth = -1 /\ i = 0 /\ j = 0
    /\ out = << >> /\ err = << >> /\ heap = EmptyHeap /\ status = -1

\* The program, from its invocation to its exit.
Init == ProgInit /\ WidthIdle /\ StdinIdle
Next == ProgNext
Spec == Init /\ [][Next]_vars

\* getDisplayWidth applied to two strings and to their concatenation.
WidthSpecInit == WidthInit /\ ProgIdle /\ StdinIdle
WidthNext == Measure
SpecWidth == WidthSpecInit /\ [][WidthNext]_vars

\* readStdinToString on a stream that delivers any amounts and may end or fail.
StdinSpecInit == StdinInit /\ ProgIdle /\ WidthIdle
SpecStdin == StdinSpecInit /\ [][StdinNext]_vars

\* ------------------------------------------------- vocabulary of the claims

\* The strings of seq joined with sep between them.
RECURSIVE JoinWith(_, _)
JoinWith(seq, sep) ==
    IF seq = << >> THEN << >>
    ELSE IF Len(seq) = 1 THEN seq[1]
    ELSE seq[1] \o sep \o JoinWith(Tail(seq), sep)

RECURSIVE Concat(_)
Concat(seq) == IF seq = << >> THEN << >> ELSE seq[1] \o Concat(Tail(seq))

\* The Lines of a Paragraph and of a Document, as byte strings.
ParaLines(pg) == [k \in 1..Len(pg.lines) |-> pg.lines[k].s]
DocLines(d) == Concat([k \in 1..Len(d.paragraphs) |-> ParaLines(d.paragraphs[k])])
DocJoined(d) ==
    JoinWith([k \in 1..Len(d.paragraphs) |-> JoinWith(ParaLines(d.paragraphs[k]), << NL >>)],
             << NL, NL >>)

\* B without its leading and its trailing newline bytes.
StripNewlines(B) ==
    LET keep == { k \in 1..Len(B) : B[k] # NL }
    IN  IF keep = {} THEN << >>
        ELSE SubSeq(B, CHOOSE k \in keep : \A m \in keep : k <= m,
                       CHOOSE k \in keep : \A m \in keep : k >= m)

\* B with every run of three or more newlines reduced to two newlines.
CollapseRuns(B) ==
    LET kept(k) == ~(B[k] = NL /\ k + 2 <= Len(B) /\ B[k + 1] = NL /\ B[k + 2] = NL)
        F[k \in 0..Len(B)] ==
            IF k = 0 THEN << >> ELSE IF kept(k) THEN Append(F[k - 1], B[k]) ELSE F[k - 1]
    IN  F[Len(B)]

\* The maximal newline-free runs of B from position p on, in order.
RECURSIVE SegmentsFrom(_, _)
SegmentsFrom(B, p) ==
    LET nls == { k \in p..Len(B) : B[k] = NL }
    IN  IF nls = {} THEN << SubSeq(B, p, Len(B)) >>
        ELSE LET q == CHOOSE k \in nls : \A m \in nls : k <= m
             IN  << SubSeq(B, p, q - 1) >> \o SegmentsFrom(B, q + 1)

Segments(B) == SegmentsFrom(B, 1)

\* The non-empty lines of B.
TextLines(B) == SelectSeq(Segments(B), LAMBDA l : l # << >>)

\* x is y with some elements left out.
RECURSIVE IsSubsequence(_, _)
IsSubsequence(x, y) ==
    IF x = << >> THEN TRUE
    ELSE IF y = << >> THEN FALSE
    ELSE IF x[1] = y[1] THEN IsSubsequence(Tail(x), Tail(y))
    ELSE IsSubsequence(x, Tail(y))

\* The positions of B where a paragraph starts: a byte that is no newline and
\* follows only newlines, or follows two newlines.
ParagraphStarts(B) ==
    { k \in 1..Len(B) :
        /\ B[k] # NL
        /\ \/ \A m \in 1..(k - 1) : B[m] = NL
           \/ k >= 3 /\ B[k - 1] = NL /\ B[k - 2] = NL }

\* B holds a run of three or more newlines between two bytes of content.
HasLongBreak(B) ==
    \E k \in 2..(Len(B) - 3) :
        B[k - 1] # NL /\ B[k] = NL /\ B[k + 1] = NL /\ B[k + 2] = NL
        /\ \E m \in (k + 3)..Len(B) : B[m] # NL

\* parseDocument has returned a Document to main.
Parsed == pc = "parsed" /\ ~IsNull(doc)

\* The diagnostics of the allocations made while the Document is built.
BuildDiagnostics ==
    { "Memory allocation error for Document",
      "Memory allocation error for Document paragraphs",
      "Memory allocation error for Paragraph",
      "Memory allocation error for Paragraph lines",
      "Memory allocation failed for line in parseDocument",
      "Reallocation error for Paragraph lines",
      "strdup error for Paragraph line",
      "Reallocation error for Document paragraphs" }

AllocationFailed == \E k \in 1..Len(err) : err[k] \in BuildDiagnostics

\* The lines of standard output, and the count of spaces a line starts with.
OutLines == LET segs == Segments(out) IN SubSeq(segs, 1, Len(segs) - 1)
OutContentLines == SelectSeq(OutLines, LAMBDA l : l # << >>)
LeadingSpaces(l) ==
    LET other == { k \in 1..Len(l) : l[k] # SPACE }
    IN  IF other = {} THEN Len(l) ELSE (CHOOSE k \in other : \A m \in other : k <= m) - 1
WithoutSpaces(l) == SelectSeq(l, LAMBDA c : c # SPACE)

\* ------------------------------------------------------------------- C1

C2_ParagraphCount ==
    Parsed => paragraphCount(doc) = Cardinality(ParagraphStarts(inputContent.s))

\* ------------------------------------------------------------------- C3

\* C3: every Paragraph of a Document that parseDocument returns has at least one
\* Line, whatever the allocations made while adding lines did.
C3_NoEmptyParagraph ==
    Parsed => \A k \in 1..paragraphCount(doc) : lineCount(doc.paragraphs[k]) >= 1

\* ------------------------------------------------------------------- C4

\* The k-th line written so far starts with the spaces that centre it.
Centred(k) ==
    LET line == DocLines(doc)[k]
        w == getDisplayWidth(line)
        pad == LeadingSpaces(OutContentLines[k])
    IN  /\ pad >= 0
        /\ w <= terminalWidth => pad = (terminalWidth - w) \div 2 /\ pad + w <= terminalWidth
        /\ w > terminalWidth => pad = 0

\* C4: every line printCenteredDocument writes is preceded by floor((T - w) / 2)
\* spaces when its display width w is at most the terminal width T, and by none
\* when it is wider; every Line of the Document has been written at exit 0.
C4_Centering ==
    /\ (pc \in {"print", "exit"} /\ ~IsNull(doc)) =>
           /\ Len(OutContentLines) <= Len(DocLines(doc))
           /\ \A k \in 1..Len(OutContentLines) : Centred(k)
    /\ (pc = "exit" /\ status = 0) => Len(OutContentLines) = Len(DocLines(doc))

\* C4's case: a finished render with a line narrower than the terminal by an odd
\* amount (its width not its byte count) and a line wider than the terminal.
C4_Witness ==
    /\ pc = "exit" /\ status = 0
    /\ \E k \in 1..Len(OutContentLines) :
           LET w == getDisplayWidth(DocLines(doc)[k])
           IN  w < terminalWidth /\ (terminalWidth - w) % 2 = 1 /\ w # Len(DocLines(doc)[k])
    /\ \E k \in 1..Len(OutContentLines) :
           getDisplayWidth(DocLines(doc)[k]) > terminalWidth + 1

\* ------------------------------------------------------------------- C5

\* What a Document's paragraphs from the k-th on look like on standard output,
\* padding aside: every line and a newline, and one more newline after every
\* paragraph but the last.
RECURSIVE Layout(_, _)
Layout(d, k) ==
    IF k > Len(d.paragraphs) THEN << >>
    ELSE Concat([m \in 1..Len(d.paragraphs[k].lines) |->
                     d.paragraphs[k].lines[m].s \o << NL >>])
         \o (IF k < Len(d.paragraphs) THEN << NL >> ELSE << >>)
         \o Layout(d, k + 1)

\* C5: at exit 0 the output is the lines of all Paragraphs in parse order, each
\* ended by one newline, with one more newline after each Paragraph but the last.
C5_Separation ==
    (pc = "exit" /\ status = 0) => WithoutSpaces(out) = Layout(doc, 1)

\* C5's case: a finished render of several non-empty paragraphs that a run of
\* three or more newlines separated in the input.
C5_Witness ==
    /\ pc = "exit" /\ status = 0
    /\ HasLongBreak(inputContent.s)
    /\ paragraphCount(doc) >= 2
    /\ lineCount(doc.paragraphs[1]) >= 1
    /\ lineCount(doc.paragraphs[paragraphCount(doc)]) >= 1

\* ------------------------------------------------------------------- C6

\* C6: the terminal width the renderer got from getTerminalWidth is positive.
C6_PositiveWidth == pc = "print" => terminalWidth > 0

\* ------------------------------------------------------------------- C7

\* C7: when an allocation failed while the Document was built the process exits
\* with status 1 and has written nothing; it exits with status 0 only with every
\* line of the input in the Document it rendered.
C7_ExhaustionFatal ==
    pc = "exit" =>
        /\ AllocationFailed => (status = 1 /\ out = << >>)
        /\ status = 0 => DocLines(doc) = TextLines(inputContent.s)

\* ------------------------------------------------------------------- C8

\* C8: when main returns, every block allocated during the run has been freed,
\* and none was freed twice.
C8_NoLeak == pc = "exit" => (heap.live = {} /\ ~heap.bad)

\* ------------------------------------------------------------------- C9

\* No suffix of a is the start of a UTF-8 sequence that a does not complete.
EndsOnBoundary(a) ==
    \A k \in 1..Len(a) :
        ~(/\ a[k] >= 192
          /\ SeqLen(a[k]) > Len(a) - k + 1
          /\ \A q \in (k + 1)..Len(a) : a[q] >= 128 /\ a[q] < 192)

\* C9: when a ends on a code-point boundary, the display width of a followed by b
\* is the sum of the display widths of a and of b.
C9_WidthAdditive ==
    (wpc = "measured" /\ EndsOnBoundary(wa)) => widthAB = widthA + widthB

\* C9's case: a of full length ending on a boundary, holding a control byte and a
\* multi-byte or zero-width character, measured with a b that starts with a
\* continuation byte.
C9_Witness ==
    /\ wpc = "measured" /\ EndsOnBoundary(wa)
    /\ Len(wa) = MaxWLen /\ widthA < Len(wa)
    /\ wb # << >> /\ wb[1] >= 128 /\ wb[1] < 192
    /\ \E k \in 1..Len(wa) : wa[k] < 32

\* ------------------------------------------------------------------- C10

\* capacity is 1024 * 2^k and fits size_t.
IsCapacity(c) == \E k \in 0..SizeBits : c = StdinCapacity * Pow2(k) /\ c < Pow2(SizeBits)

\* C10: before every read and at the final NUL write size <= capacity - 1 with
\* capacity = 1024 * 2^k; every read asks for at least one byte; nothing is
\* written outside the allocation; the buffer returned holds all the bytes of the
\* stream, in order, and then the NUL; a doubling that wraps returns NULL.
C10_StdinBuffer ==
    /\ rpc \in {"loop", "check"} =>
           /\ IsCapacity(capacity)
           /\ size <= capacity - 1
           /\ Len(buffer) = size
    /\ rpc = "loop" => capacity - size - 1 >= 1
    /\ ~overrun
    /\ (rpc = "returned" /\ result = "ok") =>
           /\ eof /\ ~ferr
           /\ size = delivered
           /\ Len(buffer) = size + 1 /\ Len(buffer) <= capacity
           /\ buffer = StreamBytes(0, delivered) \o << NUL >>
    /\ (rpc = "returned" /\ result = "NULL" /\ capacity > 0) => IsCapacity(capacity)

\* C10's case: a buffer returned after the capacity was doubled, filled up to the
\* last byte a read may use.
C10_Witness ==
    /\ rpc = "returned" /\ result = "ok"
    /\ capacity > StdinCapacity
    /\ size = capacity - 2

====
